---------------------------- MODULE Spec2Model ----------------------------
(***************************************************************************)
(* Model of the shop-registration form service (src/server.py).            *)
(*                                                                         *)
(* The service is a FastAPI application in front of one MongoDB            *)
(* collection, db.form_submissions.  Every handler is a coroutine with a   *)
(* single await on the collection; requests of different clients           *)
(* interleave at that await.  The collection executes insert_one,          *)
(* delete_one and find one at a time.                                      *)
(*                                                                         *)
(* Strings are sequences of one-character strings, so that length and      *)
(* pattern checks are computed on the characters.  The collection is       *)
(* assumed reachable: every awaited operation completes.                   *)
(***************************************************************************)
EXTENDS Integers, Sequences, FiniteSets, TLC

(***************************************************************************)
(* Bounds of the model.                                                    *)
(***************************************************************************)
NumClients == 2          \* requests that can be in flight together
NumUUIDs   == 2          \* values uuid4 can still draw in the small runs
BigExtra   == 2          \* records beyond the list cap in the large runs
UuidHexLen == 3          \* hex digits of str(uuid) kept by UuidStr

(***************************************************************************)
(* Program constants.                                                      *)
(***************************************************************************)
MobileLen == 10          \* min_length = max_length = 10, \d{10}
PinLen    == 6           \* min_length = max_length = 6, \d{6}
MinText   == 1           \* min_length = 1 of the text fields
ListCap   == 1000        \* to_list(1000)

Clients == 1..NumClients

(***************************************************************************)
(* Characters and strings.                                                 *)
(***************************************************************************)
Digit == {"0", "1", "2", "3", "4", "5", "6", "7", "8", "9"}

HexChars == <<"0", "1", "2", "3", "4", "5", "6", "7",
              "8", "9", "a", "b", "c", "d", "e", "f">>

Rep(ch, n) == [i \in 1..n |-> ch]

Range(s) == {s[i] : i \in DOMAIN s}

Min(a, b) == IF a <= b THEN a ELSE b

RECURSIVE Hex(_, _)
Hex(n, w) == IF w = 0 THEN <<>> ELSE Append(Hex(n \div 16, w - 1), HexChars[(n % 16) + 1])

RECURSIVE Dec(_)
Dec(n) == IF n < 10 THEN <<HexChars[n + 1]>> ELSE Append(Dec(n \div 10), HexChars[(n % 10) + 1])

\* str(uuid.uuid4()): the hexadecimal rendering of the drawn value.
UuidStr(u) == Hex(u, UuidHexLen)

\* datetime.isoformat() of an aware UTC datetime; the fraction is left out
\* when the microsecond part is zero.
IsoFormat(t) ==
    <<"T">> \o Dec(t.sec)
            \o (IF t.usec = 0 THEN <<>> ELSE <<".">> \o Dec(t.usec))
            \o <<"+", "0", "0", ":", "0", "0">>

(***************************************************************************)
(* The models of lines 31-75.                                              *)
(***************************************************************************)
InputFields == {"mobile_no", "shop_name", "owner_name", "ind_name", "area_pin_code",
                "address", "city", "dist", "state", "country"}

TextFields == InputFields \ {"mobile_no", "area_pin_code"}

RecordFields == InputFields \cup {"id", "created_at"}

\* The pattern left out: only the length is tested.
MatchDigitsLenOnly(s, n) == Len(s) = n

\* Field(..., pattern = r"^\d{n}$")
MatchDigits(s, n) == Len(s) = n /\ \A i \in 1..Len(s) : s[i] \in Digit

\* min_length = 1 left out of the text fields.
FieldErrorNoMinLength(p, f) ==
    IF f \notin DOMAIN p THEN "missing"
    ELSE IF f = "mobile_no" /\ ~MatchDigits(p[f], MobileLen) THEN "string_pattern_mismatch"
    ELSE IF f = "area_pin_code" /\ ~MatchDigits(p[f], PinLen) THEN "string_pattern_mismatch"
    ELSE "ok"

\* The error of one field of FormSubmissionCreate, "ok" when it validates.
\* The length constraints are tested before the pattern.
FieldError(p, f) ==
    LET lo == IF f = "mobile_no" THEN MobileLen
              ELSE IF f = "area_pin_code" THEN PinLen ELSE MinText
        hi == IF f = "mobile_no" THEN MobileLen
              ELSE IF f = "area_pin_code" THEN PinLen ELSE -1
    IN  IF f \notin DOMAIN p THEN "missing"
        ELSE IF Len(p[f]) < lo THEN "string_too_short"
        ELSE IF hi >= 0 /\ Len(p[f]) > hi THEN "string_too_long"
        ELSE IF f \in {"mobile_no", "area_pin_code"} /\ ~MatchDigits(p[f], lo)
             THEN "string_pattern_mismatch"
        ELSE "ok"

\* The errors FastAPI reports (422) when it parses the body as
\* FormSubmissionCreate: one entry per offending field.
ValidationErrors(p) ==
    {[loc |-> f, type |-> FieldError(p, f)] : f \in {g \in InputFields : FieldError(p, g) # "ok"}}

\* The body handed on as it came, undeclared keys included.
CreateDumpAll(p) == p

\* input.model_dump(): the declared fields only; other keys of the body were
\* ignored when the model was built.
CreateDump(p) == [f \in InputFields |-> p[f]]

\* FormSubmission(**d).model_dump() with created_at replaced by its
\* isoformat(): a default_factory runs only for a field d does not give.
FormSubmissionDoc(d, u, t) ==
    [f \in RecordFields |->
        IF f \in DOMAIN d THEN d[f]
        ELSE IF f = "id" THEN UuidStr(u)
        ELSE IF f = "created_at" THEN IsoFormat(t)
        ELSE <<>>]

\* city and dist filled from each other.
FormSubmissionResponseSwapped(doc) ==
    [id            |-> doc["id"],
     mobile_no     |-> doc["mobile_no"],
     shop_name     |-> doc["shop_name"],
     owner_name    |-> doc["owner_name"],
     ind_name      |-> doc["ind_name"],
     area_pin_code |-> doc["area_pin_code"],
     address       |-> doc["address"],
     city          |-> doc["dist"],
     dist          |-> doc["city"],
     state         |-> doc["state"],
     country       |-> doc["country"],
     created_at    |-> doc["created_at"]]

\* FormSubmissionResponse(id = doc['id'], ...)
FormSubmissionResponse(doc) ==
    [id            |-> doc["id"],
     mobile_no     |-> doc["mobile_no"],
     shop_name     |-> doc["shop_name"],
     owner_name    |-> doc["owner_name"],
     ind_name      |-> doc["ind_name"],
     area_pin_code |-> doc["area_pin_code"],
     address       |-> doc["address"],
     city          |-> doc["city"],
     dist          |-> doc["dist"],
     state         |-> doc["state"],
     country       |-> doc["country"],
     created_at    |-> doc["created_at"]]

(***************************************************************************)
(* The collection db.form_submissions: a sequence of documents in          *)
(* insertion order, each [oid, doc] with oid the _id the driver adds.      *)
(***************************************************************************)
\* replace_one(..., upsert = True) on mobile_no in place of insert_one: a
\* stored document with the same mobile_no is overwritten.
InsertOneUpsert(coll, oid, doc) ==
    IF \E i \in 1..Len(coll) : coll[i].doc["mobile_no"] = doc["mobile_no"]
    THEN [i \in 1..Len(coll) |->
            IF coll[i].doc["mobile_no"] = doc["mobile_no"]
            THEN [oid |-> coll[i].oid, doc |-> doc] ELSE coll[i]]
    ELSE Append(coll, [oid |-> oid, doc |-> doc])

\* insert_one(doc)
InsertOne(coll, oid, doc) == Append(coll, [oid |-> oid, doc |-> doc])

\* The positions of the documents matching {"id": sid}.
Matching(coll, sid) == {i \in 1..Len(coll) : coll[i].doc["id"] = sid}

RemoveAt(coll, i) == SubSeq(coll, 1, i - 1) \o SubSeq(coll, i + 1, Len(coll))

\* The filter lost: when some document matches, the last document goes.
DeleteOneLast(coll, sid) ==
    IF Matching(coll, sid) = {} THEN coll ELSE RemoveAt(coll, Len(coll))

\* delete_one({"id": sid}): the first matching document goes.
DeleteOne(coll, sid) ==
    IF Matching(coll, sid) = {} THEN coll
    ELSE RemoveAt(coll, CHOOSE i \in Matching(coll, sid) : \A j \in Matching(coll, sid) : i <= j)

\* deleted_count not looked at.
DeletedCountAlways(coll, sid) == 1

\* result.deleted_count
DeletedCount(coll, sid) == IF Matching(coll, sid) = {} THEN 0 ELSE 1

\* find({}, {"_id": 0}): every document without its _id, in the order of
\* insertion (no document is ever updated or moved), read in one go.
Find(coll) == [i \in 1..Len(coll) |-> coll[i].doc]

\* to_list(None): no cap.
ToListAll(cur, n) == cur

\* cursor.to_list(n)
ToList(cur, n) == SubSeq(cur, 1, Min(n, Len(cur)))

VARIABLES
    store,      \* the collection
    nextOid,    \* the next _id of the driver
    issued,     \* the values uuid4 has drawn
    pc,         \* per client: "idle", "insert" or "delete"
    req,        \* per client: the request being served
    doc,        \* per client: the document create_submission is inserting
    out,        \* the response the last step sent, NoOut when it sent none
    created,    \* history: the records Create has returned
    removed     \* history: per id, how often Delete has reported it deleted

vars == <<store, nextOid, issued, pc, req, doc, out, created, removed>>

NoReq == [op |-> "none"]
NoDoc == [none |-> TRUE]
NoOut == [op |-> "none"]

(***************************************************************************)
(* POST /api/submissions                                                   *)
(***************************************************************************)
\* The body does not validate: FastAPI answers 422 and the handler never runs.
CreateRejected(c, p) ==
    /\ pc[c] = "idle"
    /\ ValidationErrors(p) # {}
    /\ out' = [op |-> "create", payload |-> p, status |-> 422,
               detail |-> ValidationErrors(p)]
    /\ UNCHANGED <<store, nextOid, issued, pc, req, doc, created, removed>>

\* Lines 86-91: the handler builds the document, up to the await.
CreateBegin(c, p, u, t) ==
    /\ pc[c] = "idle"
    /\ ValidationErrors(p) = {}
    /\ u \notin issued
    /\ issued' = issued \cup {u}
    /\ pc' = [pc EXCEPT ![c] = "insert"]
    /\ req' = [req EXCEPT ![c] = [op |-> "create", payload |-> p]]
    /\ doc' = [doc EXCEPT ![c] = FormSubmissionDoc(CreateDump(p), u, t)]
    /\ out' = NoOut
    /\ UNCHANGED <<store, nextOid, created, removed>>

\* Lines 93-108: insert_one runs and the handler returns the record.
CreateInsert(c) ==
    /\ pc[c] = "insert"
    /\ store' = InsertOne(store, nextOid, doc[c])
    /\ nextOid' = nextOid + 1
    /\ out' = [op |-> "create", payload |-> req[c].payload, status |-> 200,
               body |-> FormSubmissionResponse(doc[c])]
    /\ created' = created \cup {FormSubmissionResponse(doc[c])}
    /\ pc' = [pc EXCEPT ![c] = "idle"]
    /\ req' = [req EXCEPT ![c] = NoReq]
    /\ doc' = [doc EXCEPT ![c] = NoDoc]
    /\ UNCHANGED <<issued, removed>>

(***************************************************************************)
(* DELETE /api/submissions/{submission_id}                                 *)
(***************************************************************************)
\* HTTPException(404) raised for an id that matches nothing.
DeleteResponse404(n) ==
    IF n = 0
    THEN [status |-> 404, success |-> FALSE, message |-> "Submission not found"]
    ELSE [status |-> 200, success |-> TRUE, message |-> "Submission deleted"]

\* Lines 220-222: the body of the answer, always sent with status 200.
DeleteResponse(n) ==
    IF n = 0
    THEN [status |-> 200, success |-> FALSE, message |-> "Submission not found"]
    ELSE [status |-> 200, success |-> TRUE, message |-> "Submission deleted"]

\* The history removed: a count per id.
Count(f, k) == IF k \in DOMAIN f THEN f[k] ELSE 0

Bump(f, k) == [x \in DOMAIN f \cup {k} |-> IF x = k THEN Count(f, k) + 1 ELSE f[x]]

\* The request arrives and the handler awaits delete_one.  overlap records
\* that another Delete of the same id was in flight at that moment.
DeleteBegin(c, sid) ==
    /\ pc[c] = "idle"
    /\ pc' = [pc EXCEPT ![c] = "delete"]
    /\ req' = [req EXCEPT ![c] =
                 [op |-> "delete", id |-> sid,
                  overlap |-> \E d \in Clients \ {c} : pc[d] = "delete" /\ req[d].id = sid]]
    /\ out' = NoOut
    /\ UNCHANGED <<store, nextOid, issued, doc, created, removed>>

\* delete_one runs and the handler answers from deleted_count.
DeleteExec(c) ==
    LET answer == DeleteResponse(DeletedCount(store, req[c].id))
    IN  /\ pc[c] = "delete"
        /\ store' = DeleteOne(store, req[c].id)
        /\ out' = [op |-> "delete", id |-> req[c].id,
                   overlap |-> req[c].overlap, status |-> answer.status,
                   success |-> answer.success, message |-> answer.message]
        /\ removed' = IF answer.success THEN Bump(removed, req[c].id) ELSE removed
        /\ pc' = [pc EXCEPT ![c] = "idle"]
        /\ req' = [req EXCEPT ![c] = NoReq]
        /\ UNCHANGED <<nextOid, issued, doc, created>>

(***************************************************************************)
(* GET /api/submissions                                                    *)
(***************************************************************************)
\* Lines 114-133: what the handler returns for the collection coll.
GetSubmissions(coll) ==
    LET submissions == ToList(Find(coll), ListCap)
    IN  [i \in 1..Len(submissions) |-> FormSubmissionResponse(submissions[i])]

\* The single await is the find; the handler reads nothing else.
List(c) ==
    /\ pc[c] = "idle"
    /\ out' = [op |-> "list", status |-> 200, items |-> GetSubmissions(store)]
    /\ UNCHANGED <<store, nextOid, issued, pc, req, doc, created, removed>>

(***************************************************************************)
(* GET /api/submissions/export                                             *)
(***************************************************************************)
Headers == <<"S.No", "Mobile No.", "Shop Name", "Owner Name", "Industry Name",
             "Pin Code", "Address", "City", "District", "State", "Country",
             "Submitted At">>

\* sub.get(f, '')
Get(sub, f) == IF f \in DOMAIN sub THEN sub[f] ELSE <<>>

\* The sequence number taken as the worksheet row.
RowDataRowIdx(row_idx, sub) ==
    <<row_idx,
      Get(sub, "mobile_no"), Get(sub, "shop_name"), Get(sub, "owner_name"),
      Get(sub, "ind_name"), Get(sub, "area_pin_code"), Get(sub, "address"),
      Get(sub, "city"), Get(sub, "dist"), Get(sub, "state"), Get(sub, "country"),
      Get(sub, "created_at")>>

\* Lines 177-190: the cells of worksheet row row_idx.
RowData(row_idx, sub) ==
    <<row_idx - 1,
      Get(sub, "mobile_no"), Get(sub, "shop_name"), Get(sub, "owner_name"),
      Get(sub, "ind_name"), Get(sub, "area_pin_code"), Get(sub, "address"),
      Get(sub, "city"), Get(sub, "dist"), Get(sub, "state"), Get(sub, "country"),
      Get(sub, "created_at")>>

\* Lines 143-194: the rows of the worksheet, row 1 the headers and the data
\* rows enumerated from 2.
ExportRows(coll) ==
    LET submissions == ToList(Find(coll), ListCap)
    IN  [r \in 1..(Len(submissions) + 1) |->
            IF r = 1 THEN Headers ELSE RowData(r, submissions[r - 1])]

MediaType == "application/vnd.openxmlformats-officedocument.spreadsheetml.sheet"

Export(c) ==
    /\ pc[c] = "idle"
    /\ out' = [op |-> "export", status |-> 200, media_type |-> MediaType,
               rows |-> ExportRows(store)]
    /\ UNCHANGED <<store, nextOid, issued, pc, req, doc, created, removed>>

(***************************************************************************)
(* The inputs of the requests.                                             *)
(***************************************************************************)
Put(p, k, v) == [x \in DOMAIN p \cup {k} |-> IF x = k THEN v ELSE p[x]]

Drop(p, k) == [x \in DOMAIN p \ {k} |-> p[x]]

\* A body that validates.
PayloadA ==
    [mobile_no     |-> <<"1", "2", "3", "4", "5", "6", "7", "8", "9", "0">>,
     shop_name     |-> <<"s", "h", "o", "p">>,
     owner_name    |-> <<"o">>,
     ind_name      |-> <<"i">>,
     area_pin_code |-> <<"1", "2", "3", "4", "5", "6">>,
     address       |-> <<"a", " ", "1">>,
     city          |-> <<"c">>,
     dist          |-> <<"d">>,
     state         |-> <<"s">>,
     country       |-> <<"c">>]

\* Another one, with keys the schema does not declare: an id that uuid4 may
\* draw, a created_at and a key of no model.
PayloadB ==
    [mobile_no     |-> Rep("9", MobileLen),
     shop_name     |-> <<" ">>,
     owner_name    |-> <<"O">>,
     ind_name      |-> <<"I">>,
     area_pin_code |-> Rep("0", PinLen),
     address       |-> <<"A">>,
     city          |-> <<"C">>,
     dist          |-> <<"D">>,
     state         |-> <<"S">>,
     country       |-> <<"C">>,
     id            |-> UuidStr(1),
     created_at    |-> <<"n", "o", "w">>,
     note          |-> <<"x">>]

ValidPayloads == {PayloadA, PayloadB}

\* "12345", one character more or less than asked, a letter among the
\* digits, the empty string.
BadMobiles == {<<"1", "2", "3", "4", "5">>, Rep("1", MobileLen - 1), Rep("1", MobileLen + 1),
               Append(Rep("1", MobileLen - 1), "a"), <<>>}

BadPins == {<<"1", "2", "3", "4", "5">>, Rep("1", PinLen + 1),
            Append(Rep("1", PinLen - 1), "a"), <<>>}

\* The two rejected bodies of the specification's examples.
ExamplePayloads == {Put(PayloadA, "mobile_no", <<"1", "2", "3", "4", "5">>),
                    Put(PayloadA, "area_pin_code", <<"1", "2", "3", "4", "5">>)}

InvalidPayloads ==
    {Put(PayloadA, "mobile_no", m) : m \in BadMobiles}
        \cup {Put(PayloadA, "area_pin_code", m) : m \in BadPins}
        \cup {Put(PayloadA, f, <<>>) : f \in TextFields}
        \cup {Drop(PayloadA, f) : f \in InputFields}
        \cup {Drop(Put(PayloadB, "mobile_no", <<"1", "2", "3", "4", "5">>), "city")}

Payloads == ValidPayloads \cup InvalidPayloads

UUIDs == 1..NumUUIDs

\* The values datetime.now(timezone.utc) returns (the wall clock may repeat
\* or step back): [sec, usec].
Times == {[sec |-> 7, usec |-> 0], [sec |-> 7, usec |-> 5]}

UnknownId == <<"n", "o", "n", "e">>

DeleteIds == {UuidStr(u) : u \in UUIDs} \cup {UnknownId}

Init ==
    /\ store = <<>>
    /\ nextOid = 1
    /\ issued = {}
    /\ pc = [c \in Clients |-> "idle"]
    /\ req = [c \in Clients |-> NoReq]
    /\ doc = [c \in Clients |-> NoDoc]
    /\ out = NoOut
    /\ created = {}
    /\ removed = <<>>

(***************************************************************************)
(* The service with concurrent clients on an empty collection.             *)
(***************************************************************************)
\* The value uuid4 draws next from the pool S: any value not drawn before, by
\* symmetry the least of them.
NextUUID(S) == {u \in S \ issued : \A v \in S \ issued : u <= v}

\* The time of the concurrent runs.
Time0 == [sec |-> 7, usec |-> 0]

Next ==
    \E c \in Clients :
        \/ \E p \in {PayloadB} \cup ExamplePayloads : CreateRejected(c, p)
        \/ \E p \in {PayloadB} \cup ExamplePayloads, u \in NextUUID(UUIDs) :
              CreateBegin(c, p, u, Time0)
        \/ CreateInsert(c)
        \/ \E sid \in DeleteIds : DeleteBegin(c, sid)
        \/ DeleteExec(c)
        \/ List(c)
        \/ Export(c)

Spec == Init /\ [][Next]_vars

(***************************************************************************)
(* One client sending one request after another, with every input.         *)
(***************************************************************************)
NextSeq ==
    \/ \E p \in Payloads : CreateRejected(1, p)
    \/ \E p \in Payloads, u \in NextUUID(UUIDs), t \in Times : CreateBegin(1, p, u, t)
    \/ CreateInsert(1)
    \/ \E sid \in DeleteIds : DeleteBegin(1, sid)
    \/ DeleteExec(1)
    \/ List(1)
    \/ Export(1)

SpecSeq == Init /\ [][NextSeq]_vars

(***************************************************************************)
(* One client on a collection that holds nothing or one record less than   *)
(* the cap of to_list, and grows past the cap.                             *)
(***************************************************************************)
\* The collection after n Create(PayloadA) with the values 1..n of uuid4.
Prefill(n) ==
    [i \in 1..n |-> [oid |-> i, doc |-> FormSubmissionDoc(CreateDump(PayloadA), i, Time0)]]

CapUUIDs == ListCap..(ListCap + BigExtra)

CapDeleteIds == {UuidStr(1), UuidStr(ListCap), UuidStr(ListCap + 1), UnknownId}

InitCap ==
    /\ store \in {Prefill(0), Prefill(ListCap - 1)}
    /\ nextOid = Len(store) + 1
    /\ issued = 1..Len(store)
    /\ pc = [c \in Clients |-> "idle"]
    /\ req = [c \in Clients |-> NoReq]
    /\ doc = [c \in Clients |-> NoDoc]
    /\ out = NoOut
    /\ created = {FormSubmissionResponse(store[i].doc) : i \in 1..Len(store)}
    /\ removed = <<>>

NextCap ==
    \/ \E u \in NextUUID(CapUUIDs) : CreateBegin(1, PayloadA, u, Time0)
    \/ CreateInsert(1)
    \/ \E sid \in CapDeleteIds : DeleteBegin(1, sid)
    \/ DeleteExec(1)
    \/ List(1)
    \/ Export(1)

SpecCap == InitCap /\ [][NextCap]_vars

(***************************************************************************)
(* The claims.                                                             *)
(***************************************************************************)
\* s is a string of exactly n digits.
IsDigits(s, n) == s \in [1..n -> Digit]

StoredIds == [i \in 1..Len(store) |-> store[i].doc["id"]]

Inserting == {c \in Clients : pc[c] = "insert"}

\* C1: a Create that is answered 200 has added exactly one document to the
\* collection, at its end; the record returned has a non-empty id and its
\* ten input fields equal those of the body sent; the document added, read
\* back without its _id, is the record returned.
C1_CreateStoresAndEchoes ==
    [][(out'.op = "create" /\ out'.status = 200) =>
          /\ Len(store') = Len(store) + 1
          /\ SubSeq(store', 1, Len(store)) = store
          /\ out'.body.id # <<>>
          /\ \A f \in InputFields : out'.body[f] = out'.payload[f]
          /\ Find(store')[Len(store')] = out'.body]_vars

\* A Create of the body with undeclared keys has been answered while another
\* record was stored.
C1_Witness ==
    /\ out.op = "create"
    /\ out.status = 200
    /\ "note" \in DOMAIN out.payload
    /\ Len(store) >= 2

\* C2: the ids of the stored documents are pairwise different, the id of a
\* document being inserted differs from every stored id and from the id of
\* every other document being inserted, and no id reported deleted is the id
\* of a stored document or of one being inserted.
C2_IdsUnique ==
    /\ \A i, j \in 1..Len(store) : i # j => StoredIds[i] # StoredIds[j]
    /\ \A c \in Inserting : Matching(store, doc[c]["id"]) = {}
    /\ \A c, d \in Inserting : c # d => doc[c]["id"] # doc[d]["id"]
    /\ \A sid \in DOMAIN removed :
          /\ Matching(store, sid) = {}
          /\ \A c \in Inserting : doc[c]["id"] # sid

\* Two Creates overlapped: the document of the second id drawn was inserted
\* before that of the first.
C2_Witness ==
    /\ Len(store) >= 2
    /\ StoredIds[1] = UuidStr(2)
    /\ StoredIds[2] = UuidStr(1)

\* What the specification asks Create to reject.
ClaimRejects(p) ==
    \/ "mobile_no" \notin DOMAIN p
    \/ ~IsDigits(p["mobile_no"], 10)
    \/ "area_pin_code" \notin DOMAIN p
    \/ ~IsDigits(p["area_pin_code"], 6)
    \/ \E f \in TextFields : f \notin DOMAIN p \/ p[f] = <<>>

\* C3: a Create is answered 422 exactly when mobile_no is missing or not 10
\* digits, area_pin_code is missing or not 6 digits, or a text field is
\* missing or empty; the 422 names at least one field and leaves the
\* collection as it was; no such body reaches the handler.
C3_ValidationDecides ==
    [][/\ out'.op = "create" =>
              /\ out'.status = 422 <=> ClaimRejects(out'.payload)
              /\ out'.status = 422 => store' = store /\ out'.detail # {}
       /\ \A c \in Clients : pc'[c] = "insert" => ~ClaimRejects(req'[c].payload)]_vars

\* The body with the mobile_no "12345" has been rejected while a record was
\* stored.
C3_Witness ==
    /\ out.op = "create"
    /\ out.status = 422
    /\ "mobile_no" \in DOMAIN out.payload
    /\ out.payload["mobile_no"] = <<"1", "2", "3", "4", "5">>
    /\ Len(store) >= 1

\* The records created and not reported deleted.
Expected == {r \in created : Count(removed, r.id) = 0}

\* C4: what a List returns is, as a set and without repetition, the records
\* Create has returned whose id Delete has not reported deleted (as long as
\* these are at most the cap of to_list).
C4_ListReflectsCreatesAndDeletes ==
    (out.op = "list" /\ Cardinality(Expected) <= ListCap) =>
        /\ Range(out.items) = Expected
        /\ Len(out.items) = Cardinality(Expected)

\* A and B were created in that order, A was deleted, and a List then
\* returned B alone.
C4_Witness ==
    /\ out.op = "list"
    /\ Cardinality(created) = 2
    /\ Len(store) = 1
    /\ store[1].oid = 2
    /\ Len(out.items) = 1
    /\ out.items[1] = store[1].doc
    /\ \E a \in created : Count(removed, a.id) = 1 /\ a \notin Range(out.items)

\* C5: a Delete of an id that no stored document has is answered 200 with
\* success = FALSE and leaves the collection as it was.
C5_DeleteMissingIsNotFound ==
    [][(out'.op = "delete" /\ Matching(store, out'.id) = {}) =>
          /\ out'.status = 200
          /\ out'.success = FALSE
          /\ store' = store]_vars

\* An id never created was asked to be deleted while a record was stored.
C5_Witness ==
    /\ out.op = "delete"
    /\ out.id = UnknownId
    /\ ~out.success
    /\ Len(store) >= 1

\* C6: over all Deletes, overlapping or not, each id is reported deleted at
\* most once, it is the id of a record Create returned, and once reported
\* deleted no stored document has it.
C6_DeleteFoundAtMostOnce ==
    \A sid \in DOMAIN removed :
        /\ removed[sid] <= 1
        /\ \E r \in created : r.id = sid
        /\ Matching(store, sid) = {}

\* A Delete that began while another Delete of the same id was in flight
\* has been answered not-found, and the id has been reported deleted once.
C6_Witness ==
    /\ out.op = "delete"
    /\ out.overlap
    /\ ~out.success
    /\ Count(removed, out.id) = 1

C8_StoreChangesOnlyByCreateAndDelete ==
    [][/\ out'.op \in {"list", "export"} => store' = store
       /\ store' # store =>
             \/ /\ out'.op = "create"
                /\ out'.status = 200
                /\ Len(store') = Len(store) + 1
                /\ SubSeq(store', 1, Len(store)) = store
             \/ /\ out'.op = "delete"
                /\ out'.success
                /\ \E i \in 1..Len(store) : store' = RemoveAt(store, i)]_vars

\* An Export has been answered while a record was stored and another had
\* been deleted.
C8_Witness ==
    /\ out.op = "export"
    /\ Len(store) >= 1
    /\ DOMAIN removed # {}

\* C9: a List is answered 200; it returns every stored record, in the order
\* of the collection, when there are at most 1000, at most 1000 records when
\* there are more, and the empty sequence when there is none.
C9_ListCap ==
    out.op = "list" =>
        /\ out.status = 200
        /\ Len(store) <= 1000 =>
              /\ Len(out.items) = Len(store)
              /\ \A i \in 1..Len(store) : out.items[i] = store[i].doc
        /\ Len(store) > 1000 => Len(out.items) <= 1000
        /\ Len(store) = 0 => out.items = <<>>

\* A List of a collection of more than 1000 records.
C9_Witness ==
    /\ out.op = "list"
    /\ Len(store) > 1000
    /\ Len(out.items) = 1000

\* C10: every stored document, its _id aside, has exactly the twelve fields
\* of a submission, none of them empty, a mobile_no of 10 digits and an
\* area_pin_code of 6 digits.
C10_StoredRecordsWellFormed ==
    \A i \in 1..Len(store) :
        LET d == Find(store)[i]
        IN  /\ DOMAIN d = {"id", "mobile_no", "shop_name", "owner_name", "ind_name",
                           "area_pin_code", "address", "city", "dist", "state", "country",
                           "created_at"}
            /\ \A f \in DOMAIN d : d[f] # <<>>
            /\ IsDigits(d["mobile_no"], 10)
            /\ IsDigits(d["area_pin_code"], 6)

\* The record of the body with undeclared keys is stored.
C10_Witness ==
    \E i \in 1..Len(store) : store[i].doc["owner_name"] = PayloadB["owner_name"]

=============================================================================
